---- MODULE Spec2Model ----
(***************************************************************************)
(* Model of the ncart backend (src/app.js): the account routes, the bearer *)
(* token middleware and the order routes, over the User and Order          *)
(* collections.                                                            *)
(*                                                                         *)
(* Time is counted in hours.  A document's _id is its index in the         *)
(* collection's sequence.  firstName stands for the profile fields of a    *)
(* user, which the routes all treat alike.  A request is served in one     *)
(* step, which leaves its response in res; Deliver hands the response to   *)
(* the client before the next request is served.  Where requests run       *)
(* concurrently a handler is served in one step per await, and calls holds *)
(* the position of each request in flight.                                 *)
(*                                                                         *)
(* Spec runs every route from the empty database, the order routes with    *)
(* one order of one shape.  SpecOrders and SpecCancel run the order routes *)
(* from two registered accounts: SpecOrders over two orders with dates,    *)
(* owners and tracking varied, SpecCancel over one order with every        *)
(* cancellation a client can send and a moving clock.  SpecGone runs the   *)
(* account routes for a session whose user document is gone.  SpecRegister *)
(* and SpecCreate run concurrent requests: registrations from the empty    *)
(* database, and createOrder, changePassword and updateProfile from two    *)
(* registered accounts.                                                    *)
(***************************************************************************)
EXTENDS Integers, Sequences, FiniteSets, TLC

VARIABLES
    users,      \* the User collection: sequence of documents, _id = index
    orders,     \* the Order collection: sequence of documents, _id = index
    clock,      \* the server's clock (Date.now), in hours
    held,       \* the issued tokens the client sessions hold (one per session)
    res,        \* the last request served and its response
    calls       \* the requests being served in steps: call id -> its position

vars == <<users, orders, clock, held, res, calls>>

----------------------------------------------------------------------------
(* Bounds and input domains *)

MaxClock == 47

Emails == {"a@x.com", "b@x.com"}
Passwords == {"secret1", "secret2"}
Salts == {"saltA"}
Names == {"Ann", "Bob"}

\* The bodies of PUT /api/user: a profile field, and an order count and a
\* password hash for the client to try to set.
ProfileBodies ==
    [firstName : Names, orders : {7},
     password : {[salt |-> "saltA", digest |-> <<"saltA", "secret2">>]}]

\* Order.date is a string; a date is the sequence of its characters' digits, so
\* that <<1, 0>> is "10" and <<9>> is "9".
Dates == {<<1, 0>>, <<9>>}
Statuses == {"Pending", "Cancelled"}
Trackings == {"trkA", "trkB"}

\* The order numbers (Order.id) the client assigns, each to one order, in turn.
OrderNos == <<"ORD-1", "ORD-2">>

NoCancellation == [kind |-> "none"]

\* The cancellationReason objects a client sends; cancelledAt is the client's.
ClientReasons ==
    {[kind |-> "record", reason |-> "changed mind", comment |-> "sorry", cancelledAt |-> 7],
     [kind |-> "record", reason |-> "too slow", comment |-> "late", cancelledAt |-> 7]}

\* expiresIn: '24h'
TokenTTL == 24

\* The clock advances to just before, or exactly to, the end of a token's life.
ClockSteps == {TokenTTL - 1, TokenTTL}

JWT_SECRET == "JWT_SECRET"

----------------------------------------------------------------------------
(* bcryptjs: a salted one-way hash; compare re-hashes with the stored salt *)

BcryptHash(password, salt) ==
    [salt |-> salt, digest |-> <<salt, password>>]

BcryptCompare(password, hash) ==
    BcryptHash(password, hash.salt) = hash

----------------------------------------------------------------------------
(* jsonwebtoken *)

\* jwt.sign(payload, secret, { expiresIn: '24h' }): iat is the time of signing
\* and exp is 24 hours later.
JwtSign(userId, email, now) ==
    [kind |-> "jwt", userId |-> userId, email |-> email,
     iat |-> now, exp |-> now + TokenTTL, sig |-> JWT_SECRET]

\* jwt.verify with the expiry compared as now > exp.
JwtVerifyInclusive(token, secret, now) ==
    /\ token.kind = "jwt"
    /\ token.sig = secret
    /\ now <= token.exp

\* jwt.verify: no error iff the token parses, its signature was made with the
\* secret, and the clock has not reached exp.
JwtVerify(token, secret, now) ==
    /\ token.kind = "jwt"
    /\ token.sig = secret
    /\ now < token.exp

\* A held token whose signature no longer matches its content.
Tamper(token) == [token EXCEPT !.sig = "forged"]

MalformedToken == [kind |-> "malformed"]
NoToken == [kind |-> "none"]
NoUser == [kind |-> "none"]

\* The authorization headers a client can send, as the header's value split
\* on ' ' (<<>> is a request without the header).
Headers ==
    {<<>>, <<"Bearer">>, <<"Bearer", MalformedToken>>}
        \cup {<<"Bearer", t>> : t \in held}
        \cup {<<"Bearer", Tamper(t)>> : t \in held}

\* authHeader && authHeader.split(' ')[1]
BearerToken(authHeader) ==
    IF Len(authHeader) < 2 THEN NoToken ELSE authHeader[2]

\* authenticateToken without the err branch of jwt.verify's callback.
AuthenticateTokenSkipVerify(authHeader) ==
    LET token == BearerToken(authHeader) IN
    IF token = NoToken
    THEN [status |-> 401, next |-> FALSE, user |-> NoUser]
    ELSE IF token.kind # "jwt"
    THEN [status |-> 403, next |-> FALSE, user |-> NoUser]
    ELSE [status |-> 200, next |-> TRUE,
          user |-> [kind |-> "user", userId |-> token.userId, email |-> token.email]]

\* The middleware: 401 without a token, 403 when verification fails, else
\* req.user is the token's payload and next() runs the handler.
AuthenticateToken(authHeader) ==
    LET token == BearerToken(authHeader) IN
    IF token = NoToken
    THEN [status |-> 401, next |-> FALSE, user |-> NoUser]
    ELSE IF ~JwtVerify(token, JWT_SECRET, clock)
    THEN [status |-> 403, next |-> FALSE, user |-> NoUser]
    ELSE [status |-> 200, next |-> TRUE,
          user |-> [kind |-> "user", userId |-> token.userId, email |-> token.email]]

\* No request is being served.
Idle == [op |-> "idle", status |-> 0]

\* The response of a protected route whose middleware did not call next().
Rejected(op, authHeader, auth) ==
    /\ res' = [op |-> op, status |-> auth.status, authHeader |-> authHeader,
               user |-> auth.user, ran |-> FALSE]
    /\ UNCHANGED <<users, orders, clock, held, calls>>


----------------------------------------------------------------------------
(* The collections *)

UserIds == 1..Len(users)
OrderIds == 1..Len(orders)

\* User.findOne with a filter that matches no document.
FindUserByEmailNone(email) == 0

\* User.findOne({ email }): 0 when there is none
FindUserByEmail(email) ==
    IF \E i \in UserIds : users[i].email = email
    THEN CHOOSE i \in UserIds : users[i].email = email
    ELSE 0

\* User.findById(id): 0 when there is none
FindUserById(id) == IF id \in UserIds THEN id ELSE 0

Init ==
    /\ users = <<>>
    /\ orders = <<>>
    /\ clock = 0
    /\ held = {}
    /\ res = Idle
    /\ calls = <<>>

\* Time passes between requests.
Tick ==
    \E d \in ClockSteps :
        /\ res = Idle
        /\ clock + d <= MaxClock
        /\ clock' = clock + d
        /\ UNCHANGED <<users, orders, held, res, calls>>

\* The response reaches the client, which stores a token it was sent in place
\* of the one it held, or does not store it.
Deliver ==
    /\ res # Idle
    /\ res' = Idle
    /\ \/ held' = held
       \/ /\ res.op \in {"register", "login"}
          /\ res.token # NoToken
          /\ held' = {res.token}
    /\ UNCHANGED <<users, orders, clock, calls>>

----------------------------------------------------------------------------
(* POST /api/register *)

Register(email, password, firstName, salt) ==
    LET req == [email |-> email, password |-> password]
        existingUser == FindUserByEmail(email)
        id == Len(users) + 1
        token == JwtSign(id, email, clock)
    IN
    /\ res = Idle
    /\ IF existingUser # 0
       THEN /\ res' = [op |-> "register", status |-> 400, req |-> req,
                       token |-> NoToken, id |-> 0]
            /\ UNCHANGED <<users, orders, clock, held, calls>>
       ELSE /\ users' = Append(users,
                   [email |-> email, password |-> BcryptHash(password, salt),
                    firstName |-> firstName, orders |-> 0])
            /\ res' = [op |-> "register", status |-> 201, req |-> req,
                       token |-> token, id |-> id]
            /\ UNCHANGED <<orders, clock, held, calls>>

----------------------------------------------------------------------------
(* POST /api/login *)

\* login signing the token without the user's _id.
LoginResponseLostId(email, password) ==
    LET req == [email |-> email, password |-> password]
        user == FindUserByEmail(email)
        token == JwtSign(0, email, clock)
    IN
    IF user = 0
    THEN [op |-> "login", status |-> 400, req |-> req, token |-> NoToken, id |-> 0,
          error |-> "Invalid email or password"]
    ELSE IF ~BcryptCompare(password, users[user].password)
    THEN [op |-> "login", status |-> 400, req |-> req, token |-> NoToken, id |-> 0,
          error |-> "Invalid email or password"]
    ELSE [op |-> "login", status |-> 200, req |-> req, token |-> token, id |-> user]

\* login telling an unknown email apart from a wrong password.
LoginResponseUserNotFound(email, password) ==
    LET req == [email |-> email, password |-> password]
        user == FindUserByEmail(email)
        token == JwtSign(user, email, clock)
    IN
    IF user = 0
    THEN [op |-> "login", status |-> 400, req |-> req, token |-> NoToken, id |-> 0,
          error |-> "User not found"]
    ELSE IF ~BcryptCompare(password, users[user].password)
    THEN [op |-> "login", status |-> 400, req |-> req, token |-> NoToken, id |-> 0,
          error |-> "Invalid email or password"]
    ELSE [op |-> "login", status |-> 200, req |-> req, token |-> token, id |-> user]

\* The response to a login request in the current state.
LoginResponse(email, password) ==
    LET req == [email |-> email, password |-> password]
        user == FindUserByEmail(email)
        token == JwtSign(user, email, clock)
    IN
    IF user = 0
    THEN [op |-> "login", status |-> 400, req |-> req, token |-> NoToken, id |-> 0,
          error |-> "Invalid email or password"]
    ELSE IF ~BcryptCompare(password, users[user].password)
    THEN [op |-> "login", status |-> 400, req |-> req, token |-> NoToken, id |-> 0,
          error |-> "Invalid email or password"]
    ELSE [op |-> "login", status |-> 200, req |-> req, token |-> token, id |-> user]

Login(email, password) ==
    /\ res = Idle
    /\ res' = LoginResponse(email, password)
    /\ UNCHANGED <<users, orders, clock, held, calls>>

----------------------------------------------------------------------------
(* The protected routes: authenticateToken, then the handler *)

\* The response of a protected route whose handler ran.
Handled(op, authHeader, auth, status, req, out) ==
    res' = [op |-> op, status |-> status, authHeader |-> authHeader,
            user |-> auth.user, ran |-> TRUE, req |-> req, out |-> out]

(* GET /api/user *)

GetProfile(authHeader) ==
    LET auth == AuthenticateToken(authHeader)
        user == FindUserById(auth.user.userId)
    IN
    /\ res = Idle
    /\ IF ~auth.next THEN Rejected("getProfile", authHeader, auth)
       ELSE /\ Handled("getProfile", authHeader, auth,
                       IF user = 0 THEN 404 ELSE 200, <<>>, user)
            /\ UNCHANGED <<users, orders, clock, held, calls>>

(* PUT /api/user *)

\* The update document built from the whole request body.
ProfileFieldsWholeBody(body) == body

\* The update document: the profile fields taken out of the request body, and
\* nothing else of it.
ProfileFields(body) == [firstName |-> body.firstName]

\* User.findByIdAndUpdate(id, update): the paths of the update are set and the
\* others kept; no document, no write
UpdateUserProfile(id, update) ==
    IF FindUserById(id) = 0 THEN users
    ELSE [users EXCEPT ![id] =
             [f \in DOMAIN @ |-> IF f \in DOMAIN update THEN update[f] ELSE @[f]]]

UpdateProfile(authHeader, body) ==
    LET auth == AuthenticateToken(authHeader) IN
    /\ res = Idle
    /\ IF ~auth.next THEN Rejected("updateProfile", authHeader, auth)
       ELSE /\ users' = UpdateUserProfile(auth.user.userId, ProfileFields(body))
            /\ Handled("updateProfile", authHeader, auth, 200,
                       body, FindUserById(auth.user.userId))
            /\ UNCHANGED <<orders, clock, held, calls>>

(* PUT /api/user/password *)

\* changePassword without the check of the current password.
ChangePasswordNoCheck(authHeader, currentPassword, newPassword, salt) ==
    LET auth == AuthenticateToken(authHeader)
        user == FindUserById(auth.user.userId)
        req == [currentPassword |-> currentPassword, newPassword |-> newPassword]
    IN
    /\ res = Idle
    /\ IF ~auth.next THEN Rejected("changePassword", authHeader, auth)
       ELSE IF user = 0
       THEN /\ Handled("changePassword", authHeader, auth, 404, req, 0)
            /\ UNCHANGED <<users, orders, clock, held, calls>>
       ELSE /\ users' = [users EXCEPT ![user].password = BcryptHash(newPassword, salt)]
            /\ Handled("changePassword", authHeader, auth, 200, req, user)
            /\ UNCHANGED <<orders, clock, held, calls>>

ChangePassword(authHeader, currentPassword, newPassword, salt) ==
    LET auth == AuthenticateToken(authHeader)
        user == FindUserById(auth.user.userId)
        req == [currentPassword |-> currentPassword, newPassword |-> newPassword]
    IN
    /\ res = Idle
    /\ IF ~auth.next THEN Rejected("changePassword", authHeader, auth)
       ELSE IF user = 0
       THEN /\ Handled("changePassword", authHeader, auth, 404, req, 0)
            /\ UNCHANGED <<users, orders, clock, held, calls>>
       ELSE IF ~BcryptCompare(currentPassword, users[user].password)
       THEN /\ Handled("changePassword", authHeader, auth, 400, req, user)
            /\ UNCHANGED <<users, orders, clock, held, calls>>
       ELSE /\ users' = [users EXCEPT ![user].password = BcryptHash(newPassword, salt)]
            /\ Handled("changePassword", authHeader, auth, 200, req, user)
            /\ UNCHANGED <<orders, clock, held, calls>>

----------------------------------------------------------------------------
(* Strings compare by code unit, as MongoDB's sort does *)

RECURSIVE StrLess(_, _)
StrLess(a, b) ==
    IF a = <<>> THEN b # <<>>
    ELSE IF b = <<>> THEN FALSE
    ELSE IF Head(a) # Head(b) THEN Head(a) < Head(b)
    ELSE StrLess(Tail(a), Tail(b))

\* The sequences that hold each member of the set ids once.
Orderings(ids) ==
    {s \in [1..Cardinality(ids) -> ids] : \A i, j \in DOMAIN s : i # j => s[i] # s[j]}

\* .sort({ date: 1 })
SortedByDateAsc(s) ==
    \A i, j \in DOMAIN s : i < j => ~StrLess(orders[s[j]].date, orders[s[i]].date)

\* .sort({ date: -1 }): no document comes before one with a greater date;
\* the order among equal dates is the store's choice.
SortedByDateDesc(s) ==
    \A i, j \in DOMAIN s : i < j => ~StrLess(orders[s[i]].date, orders[s[j]].date)

\* Order.find(filter).sort({ date: -1 }), as the _ids of the documents found
FindOrdersSorted(ids) == {s \in Orderings(ids) : SortedByDateDesc(s)}

----------------------------------------------------------------------------
(* GET /api/orders *)

ListOrders(authHeader) ==
    LET auth == AuthenticateToken(authHeader) IN
    /\ res = Idle
    /\ IF ~auth.next THEN Rejected("listOrders", authHeader, auth)
       ELSE /\ \E found \in FindOrdersSorted(
                     {i \in OrderIds : orders[i].userId = auth.user.userId}) :
                   Handled("listOrders", authHeader, auth, 200, <<>>, found)
            /\ UNCHANGED <<users, orders, clock, held, calls>>

(* POST /api/orders *)

\* User.findByIdAndUpdate(id, { $inc: { orders: 1 } }): no document, no write
IncOrders(id) ==
    IF FindUserById(id) = 0 THEN users
    ELSE [users EXCEPT ![id].orders = @ + 1]

\* { userId: req.user.userId, ...req.body }
OrderDataBodyWins(body, userId) == body

\* { ...req.body, userId: req.user.userId }
OrderData(body, userId) == [body EXCEPT !.userId = userId]

CreateOrder(authHeader, body) ==
    LET auth == AuthenticateToken(authHeader) IN
    /\ res = Idle
    /\ IF ~auth.next THEN Rejected("createOrder", authHeader, auth)
       ELSE /\ orders' = Append(orders, OrderData(body, auth.user.userId))
            /\ users' = IncOrders(auth.user.userId)
            /\ Handled("createOrder", authHeader, auth, 201, body, Len(orders) + 1)
            /\ UNCHANGED <<clock, held, calls>>

(* PUT /api/orders/:id and PUT /api/admin/orders/:id *)

\* { cancelledAt: new Date(), ...cancellationReason }
CancellationUpdateClientTime(body, now) ==
    IF body.status = "Cancelled" /\ body.cancellationReason # NoCancellation
    THEN body.cancellationReason
    ELSE NoCancellation

\* if (status === 'Cancelled' && cancellationReason)
\*   updateData.cancellationReason = { ...cancellationReason, cancelledAt: new Date() }
CancellationUpdate(body, now) ==
    IF body.status = "Cancelled" /\ body.cancellationReason # NoCancellation
    THEN [body.cancellationReason EXCEPT !.cancelledAt = now]
    ELSE NoCancellation

\* The document after the update: the fields of updateData are set, the rest kept.
ApplyUpdate(order, body, setTracking, now) ==
    LET cancellation == CancellationUpdate(body, now) IN
    [order EXCEPT
        !.status = body.status,
        !.tracking = IF setTracking THEN body.tracking ELSE @,
        !.cancellationReason = IF cancellation # NoCancellation THEN cancellation ELSE @]

\* Order.findOneAndUpdate({ _id: id })
FindOwnOrderAnyOwner(id, userId) ==
    IF id \in OrderIds THEN id ELSE 0

\* Order.findOneAndUpdate({ _id: id, userId }): 0 when no document matches
FindOwnOrder(id, userId) ==
    IF id \in OrderIds /\ orders[id].userId = userId THEN id ELSE 0

\* Order.findByIdAndUpdate(id): 0 when there is none
FindOrderById(id) == IF id \in OrderIds THEN id ELSE 0

UpdateOrder(authHeader, id, body) ==
    LET auth == AuthenticateToken(authHeader)
        order == FindOwnOrder(id, auth.user.userId)
        req == [id |-> id, body |-> body]
    IN
    /\ res = Idle
    /\ IF ~auth.next THEN Rejected("updateOrder", authHeader, auth)
       ELSE IF order = 0
       THEN /\ Handled("updateOrder", authHeader, auth, 404, req, 0)
            /\ UNCHANGED <<users, orders, clock, held, calls>>
       ELSE /\ orders' = [orders EXCEPT ![order] = ApplyUpdate(@, body, TRUE, clock)]
            /\ Handled("updateOrder", authHeader, auth, 200, req, order)
            /\ UNCHANGED <<users, clock, held, calls>>

AdminUpdateOrder(authHeader, id, body) ==
    LET auth == AuthenticateToken(authHeader)
        order == FindOrderById(id)
        req == [id |-> id, body |-> body]
    IN
    /\ res = Idle
    /\ IF ~auth.next THEN Rejected("adminUpdateOrder", authHeader, auth)
       ELSE IF order = 0
       THEN /\ Handled("adminUpdateOrder", authHeader, auth, 404, req, 0)
            /\ UNCHANGED <<users, orders, clock, held, calls>>
       ELSE /\ orders' = [orders EXCEPT ![order] = ApplyUpdate(@, body, FALSE, clock)]
            /\ Handled("adminUpdateOrder", authHeader, auth, 200, req, order)
            /\ UNCHANGED <<users, clock, held, calls>>

(* GET /api/admin/users and GET /api/admin/orders *)

AdminListUsers(authHeader) ==
    LET auth == AuthenticateToken(authHeader) IN
    /\ res = Idle
    /\ IF ~auth.next THEN Rejected("adminListUsers", authHeader, auth)
       ELSE /\ Handled("adminListUsers", authHeader, auth, 200, <<>>,
                       [i \in UserIds |-> [email |-> users[i].email,
                                           firstName |-> users[i].firstName,
                                           orders |-> users[i].orders]])
            /\ UNCHANGED <<users, orders, clock, held, calls>>

AdminListOrders(authHeader) ==
    LET auth == AuthenticateToken(authHeader) IN
    /\ res = Idle
    /\ IF ~auth.next THEN Rejected("adminListOrders", authHeader, auth)
       ELSE /\ \E found \in FindOrdersSorted(OrderIds) :
                   Handled("adminListOrders", authHeader, auth, 200, <<>>, found)
            /\ UNCHANGED <<users, orders, clock, held, calls>>

(* DELETE /api/admin/products/:id and DELETE /api/admin/blog/:id: the Product
   and BlogPost collections are outside the model; the document is found and
   deleted (200) or not found (404), and no user or order is touched. *)

AdminDelete(authHeader, collection, found) ==
    LET auth == AuthenticateToken(authHeader) IN
    /\ res = Idle
    /\ IF ~auth.next THEN Rejected("adminDelete", authHeader, auth)
       ELSE /\ Handled("adminDelete", authHeader, auth,
                       IF found THEN 200 ELSE 404, collection, found)
            /\ UNCHANGED <<users, orders, clock, held, calls>>

----------------------------------------------------------------------------
(* The requests clients send *)

\* The bodies of POST /api/orders: the next order number, and a userId of the
\* body's own.
OrderBodies(nos, userIds, dates, statuses, trackings, cancellations) ==
    IF Len(orders) >= Len(nos) THEN {}
    ELSE [id : {nos[Len(orders) + 1]}, userId : userIds, date : dates,
          status : statuses, tracking : trackings, cancellationReason : cancellations]

\* The bodies of PUT /api/orders/:id and PUT /api/admin/orders/:id
UpdateBodies(statuses, trackings, cancellations) ==
    [status : statuses, tracking : trackings, cancellationReason : cancellations]

NextAccounts ==
    \/ Tick
    \/ Deliver
    \/ \E email \in Emails, password \in Passwords, firstName \in Names, salt \in Salts :
          Register(email, password, firstName, salt)
    \/ \E email \in Emails, password \in Passwords : Login(email, password)
    \/ \E authHeader \in Headers : GetProfile(authHeader)
    \/ \E authHeader \in Headers, body \in ProfileBodies : UpdateProfile(authHeader, body)
    \/ \E authHeader \in Headers, currentPassword \in Passwords,
          newPassword \in Passwords, salt \in Salts :
          ChangePassword(authHeader, currentPassword, newPassword, salt)

\* The order and admin routes, with the bodies of the requests drawn from
\* orderBodies (POST) and updateBodies (PUT).
NextOrdersOf(orderBodies, updateBodies) ==
    \/ \E authHeader \in Headers : ListOrders(authHeader)
    \/ \E authHeader \in Headers, body \in orderBodies : CreateOrder(authHeader, body)
    \/ \E authHeader \in Headers, id \in 1..(Len(orders) + 1), body \in updateBodies :
          UpdateOrder(authHeader, id, body)
    \/ \E authHeader \in Headers, id \in 1..(Len(orders) + 1), body \in updateBodies :
          AdminUpdateOrder(authHeader, id, body)
    \/ \E authHeader \in Headers : AdminListUsers(authHeader)
    \/ \E authHeader \in Headers : AdminListOrders(authHeader)
    \/ \E authHeader \in Headers, collection \in {"Product", "BlogPost"},
          found \in BOOLEAN : AdminDelete(authHeader, collection, found)

\* Every route; the order routes with one order of one shape.
Next ==
    \/ NextAccounts
    \/ NextOrdersOf(
          OrderBodies(<<"ORD-1">>, {2}, {<<9>>}, {"Pending"}, {"trkA"}, {NoCancellation}),
          UpdateBodies({"Pending"}, {"trkA"}, {NoCancellation}))

Spec == Init /\ [][Next]_vars

\* Two registered accounts, the first one's session open, and no order yet.
InitOrders ==
    /\ users = <<[email |-> "a@x.com", password |-> BcryptHash("secret1", "saltA"),
                  firstName |-> "Ann", orders |-> 0],
                 [email |-> "b@x.com", password |-> BcryptHash("secret2", "saltA"),
                  firstName |-> "Bob", orders |-> 0]>>
    /\ orders = <<>>
    /\ clock = 0
    /\ held = {JwtSign(1, "a@x.com", 0)}
    /\ res = Idle
    /\ calls = <<>>

OneReason == {CHOOSE r \in ClientReasons : TRUE}

\* The order routes over two orders of either account, with the clock at rest.
NextOrders ==
    \/ Deliver
    \/ \E email \in Emails, password \in Passwords : Login(email, password)
    \/ NextOrdersOf(
          OrderBodies(OrderNos, {2}, Dates, {"Pending"}, {"trkA"}, {NoCancellation}),
          UpdateBodies(Statuses, {"trkB"}, OneReason \cup {NoCancellation}))

SpecOrders == InitOrders /\ [][NextOrders]_vars

\* The order routes over one order, with every cancellation and a moving clock.
NextCancel ==
    \/ Tick
    \/ Deliver
    \/ \E email \in Emails, password \in Passwords : Login(email, password)
    \/ NextOrdersOf(
          OrderBodies(<<"ORD-1">>, {2}, {<<9>>}, Statuses, {"trkA"},
                      ClientReasons \cup {NoCancellation}),
          UpdateBodies(Statuses, {"trkA"}, ClientReasons \cup {NoCancellation}))

SpecCancel == InitOrders /\ [][NextCancel]_vars

\* One account left and a session whose account is gone: the second
\* account's document was removed from the collection after its token was
\* issued (no route removes a user; the token is verified without the store).
InitGone ==
    /\ users = <<[email |-> "a@x.com", password |-> BcryptHash("secret1", "saltA"),
                  firstName |-> "Ann", orders |-> 0]>>
    /\ orders = <<>>
    /\ clock = 0
    /\ held = {JwtSign(2, "b@x.com", 0)}
    /\ res = Idle
    /\ calls = <<>>

\* The account routes but register, the collection keeping its one document.
NextGone ==
    \/ Tick
    \/ Deliver
    \/ \E email \in Emails, password \in Passwords : Login(email, password)
    \/ \E authHeader \in Headers : GetProfile(authHeader)
    \/ \E authHeader \in Headers, body \in ProfileBodies : UpdateProfile(authHeader, body)
    \/ \E authHeader \in Headers, currentPassword \in Passwords,
          newPassword \in Passwords, salt \in Salts :
          ChangePassword(authHeader, currentPassword, newPassword, salt)

SpecGone == InitGone /\ [][NextGone]_vars

----------------------------------------------------------------------------
(* Concurrent requests: a handler is served in one step per await *)

MaxCalls == 3

CallIds == DOMAIN calls

\* A call is added to the requests in flight, or moves on.
Begin(call) == calls' = Append(calls, call)
Move(c, call) == calls' = [calls EXCEPT ![c] = call]

\* The index that `unique: true` puts on User.email, with no duplicate-key check.
DuplicateKeyNoIndex(email) == FALSE

\* The index that `unique: true` puts on User.email: an insert of a second
\* document with the email fails with a duplicate-key error.
DuplicateKey(email) == \E u \in UserIds : users[u].email = email

(* POST /api/register, in steps *)

\* await User.findOne({ email }) and the 400 of an existing account.
RegisterFindOne(email, password, firstName, salt) ==
    LET call == [op |-> "register", email |-> email, password |-> password,
                 firstName |-> firstName, salt |-> salt,
                 token |-> NoToken, id |-> 0]
    IN
    /\ Len(calls) < MaxCalls
    /\ IF FindUserByEmail(email) # 0
       THEN Begin(call @@ [pc |-> "done", status |-> 400])
       ELSE Begin(call @@ [pc |-> "save", status |-> 0])
    /\ UNCHANGED <<users, orders, clock, held, res>>

\* bcrypt.hash, which touches no collection, and await user.save(), then the
\* token and the 201; the duplicate-key error of the save is caught and
\* answered 500.
RegisterSave(c) ==
    LET call == calls[c]
        id == Len(users) + 1
    IN
    /\ call.op = "register"
    /\ call.pc = "save"
    /\ IF DuplicateKey(call.email)
       THEN /\ Move(c, [call EXCEPT !.pc = "done", !.status = 500])
            /\ UNCHANGED <<users, orders, clock, held, res>>
       ELSE /\ users' = Append(users,
                   [email |-> call.email,
                    password |-> BcryptHash(call.password, call.salt),
                    firstName |-> call.firstName, orders |-> 0])
            /\ Move(c, [call EXCEPT !.pc = "done", !.status = 201, !.id = id,
                                    !.token = JwtSign(id, call.email, clock)])
            /\ UNCHANGED <<orders, clock, held, res>>

\* Register requests served concurrently, from the empty database.
NextRegister ==
    \/ \E email \in Emails, password \in Passwords, firstName \in Names, salt \in Salts :
          RegisterFindOne(email, password, firstName, salt)
    \/ \E c \in CallIds : RegisterSave(c)

SpecRegister == Init /\ [][NextRegister]_vars

(* POST /api/orders, in steps *)

\* The handler up to await order.save(): the order is stored, or the save
\* fails and the request is answered 500 with nothing written.  A request the
\* middleware rejects is answered at once.
CreateOrderSave(authHeader, body, saved) ==
    LET auth == AuthenticateToken(authHeader)
        call == [op |-> "createOrder", userId |-> auth.user.userId]
    IN
    IF ~auth.next
    THEN /\ res = Idle
         /\ Rejected("createOrder", authHeader, auth)
    ELSE /\ Len(calls) < MaxCalls
         /\ IF saved
            THEN /\ orders' = Append(orders, OrderData(body, auth.user.userId))
                 /\ Begin(call @@ [pc |-> "inc", order |-> Len(orders) + 1,
                                   status |-> 0])
            ELSE /\ Begin(call @@ [pc |-> "done", order |-> 0, status |-> 500])
                 /\ UNCHANGED orders
         /\ UNCHANGED <<users, clock, held, res>>

\* await User.findByIdAndUpdate(userId, { $inc: { orders: 1 } }) and the 201;
\* an update that fails is answered 500, the order staying as saved.
CreateOrderInc(c, updated) ==
    LET call == calls[c] IN
    /\ call.op = "createOrder"
    /\ call.pc = "inc"
    /\ IF updated
       THEN /\ users' = IncOrders(call.userId)
            /\ Move(c, [call EXCEPT !.pc = "done", !.status = 201])
       ELSE /\ Move(c, [call EXCEPT !.pc = "failed", !.status = 500])
            /\ UNCHANGED users
    /\ UNCHANGED <<orders, clock, held, res>>

\* The process stops: the requests in flight are never answered, and what
\* they wrote stays written.
Crash ==
    /\ \E c \in CallIds : calls[c].status = 0
    /\ calls' = [c \in CallIds |->
                   IF calls[c].status = 0 THEN [calls[c] EXCEPT !.pc = "lost"]
                   ELSE calls[c]]
    /\ UNCHANGED <<users, orders, clock, held, res>>

(* PUT /api/user/password, in steps *)

\* user.save() writing the whole document as it was read.
SaveWholeDocument(id, doc, modified) ==
    [users EXCEPT ![id] = doc]

\* user.save() of a document read before: Mongoose writes the paths modified
\* since the read and no other.
SaveModified(id, doc, modified) ==
    [users EXCEPT ![id] =
        [f \in DOMAIN @ |-> IF f \in modified THEN doc[f] ELSE @[f]]]

\* The handler up to user.save(): await User.findById, bcrypt.compare and
\* bcrypt.hash, with the document held as it was read.
ChangePasswordFind(authHeader, currentPassword, newPassword, salt) ==
    LET auth == AuthenticateToken(authHeader)
        user == FindUserById(auth.user.userId)
        call == [op |-> "changePassword", userId |-> auth.user.userId]
    IN
    IF ~auth.next
    THEN /\ res = Idle
         /\ Rejected("changePassword", authHeader, auth)
    ELSE /\ Len(calls) < MaxCalls
         /\ IF user = 0
            THEN Begin(call @@ [pc |-> "done", status |-> 404])
            ELSE IF ~BcryptCompare(currentPassword, users[user].password)
            THEN Begin(call @@ [pc |-> "done", status |-> 400])
            ELSE Begin(call @@ [pc |-> "save", status |-> 0,
                                doc |-> [users[user] EXCEPT
                                           !.password = BcryptHash(newPassword, salt)]])
         /\ UNCHANGED <<users, orders, clock, held, res>>

\* await user.save() and the 200.
ChangePasswordSave(c) ==
    LET call == calls[c] IN
    /\ call.op = "changePassword"
    /\ call.pc = "save"
    /\ users' = SaveModified(call.userId, call.doc, {"password"})
    /\ Move(c, [call EXCEPT !.pc = "done", !.status = 200])
    /\ UNCHANGED <<orders, clock, held, res>>

\* Two registered accounts with no order yet, both sessions open.
InitCreate ==
    /\ users = <<[email |-> "a@x.com", password |-> BcryptHash("secret1", "saltA"),
                  firstName |-> "Ann", orders |-> 0],
                 [email |-> "b@x.com", password |-> BcryptHash("secret2", "saltA"),
                  firstName |-> "Bob", orders |-> 0]>>
    /\ orders = <<>>
    /\ clock = 0
    /\ held = {JwtSign(1, "a@x.com", 0), JwtSign(2, "b@x.com", 0)}
    /\ res = Idle
    /\ calls = <<>>

\* The Authorization headers of the open sessions.
SessionHeaders == {<<"Bearer", token>> : token \in held}

\* createOrder and changePassword requests of the two sessions served
\* concurrently with one another and with updateProfile.
NextCreate ==
    \/ Deliver
    \/ \E authHeader \in SessionHeaders,
          body \in {b \in ProfileBodies : b.firstName = "Bob"} :
          UpdateProfile(authHeader, body)
    \/ \E authHeader \in SessionHeaders, saved \in BOOLEAN,
          body \in OrderBodies(OrderNos, {2}, {<<9>>}, {"Pending"}, {"trkA"},
                               {NoCancellation}) :
          CreateOrderSave(authHeader, body, saved)
    \/ \E c \in CallIds, updated \in BOOLEAN : CreateOrderInc(c, updated)
    \/ Crash
    \/ \E authHeader \in SessionHeaders, currentPassword \in Passwords,
          newPassword \in {"secret2"}, salt \in Salts :
          ChangePasswordFind(authHeader, currentPassword, newPassword, salt)
    \/ \E c \in CallIds : ChangePasswordSave(c)

SpecCreate == InitCreate /\ [][NextCreate]_vars

----------------------------------------------------------------------------
(* Properties *)

ProtectedOps ==
    {"getProfile", "updateProfile", "changePassword", "listOrders", "createOrder",
     "updateOrder", "adminUpdateOrder", "adminListUsers", "adminListOrders",
     "adminDelete"}

\* The step serves a request of one of the given routes.
Serves(ops) == res = Idle /\ res'.op \in ops

\* The token was signed by this server and the clock has not reached the end
\* of the 24 hours that started when it was issued.
IssuedAndFresh(token, now) ==
    /\ token.kind = "jwt"
    /\ token.sig = JWT_SECRET
    /\ now < token.iat + TokenTTL

\* C1: on every route behind authenticateToken the handler runs only for a
\* bearer token that verifies, and then with the token's identity as req.user;
\* a request without a token ends 401 and one whose token does not verify
\* (malformed, forged, expired) ends 403, both with req.user unset and the
\* users and orders as they were.
C1_HandlerOnlyAfterVerification ==
    [][Serves(ProtectedOps) =>
        LET token == BearerToken(res'.authHeader) IN
        /\ res'.ran <=> IssuedAndFresh(token, clock)
        /\ res'.ran =>
              /\ res'.user.kind = "user"
              /\ res'.user.userId = token.userId
              /\ res'.user.email = token.email
              /\ res'.status \notin {401, 403}
        /\ ~res'.ran =>
              /\ res'.status = (IF token = NoToken THEN 401 ELSE 403)
              /\ res'.user = NoUser
              /\ users' = users
              /\ orders' = orders
      ]_vars

\* C1 witness: an order is posted with a token of this server that has
\* expired, and the request ends 403.
C1_Witness ==
    /\ res.op = "createOrder"
    /\ res.status = 403
    /\ BearerToken(res.authHeader).kind = "jwt"
    /\ BearerToken(res.authHeader).sig = JWT_SECRET
    /\ clock >= BearerToken(res.authHeader).iat + TokenTTL

\* C2: a registration of a fresh email stores that email with a hash the
\* password matches and returns a token for the new user; a user's _id, email
\* and hash stay as they are through every step but a successful
\* changePassword of that user; and a login with the email and a password
\* that matches the stored hash ends 200 with a token that verifies and
\* carries that user's _id and email.  So the login with the registered
\* credentials succeeds until the user changes the password.
C2_LoginAfterRegister ==
    [][/\ (Serves({"register"}) /\ res'.status = 201) =>
            /\ res'.id = Len(users') /\ res'.id \notin UserIds
            /\ users'[res'.id].email = res'.req.email
            /\ BcryptCompare(res'.req.password, users'[res'.id].password)
            /\ IssuedAndFresh(res'.token, clock')
            /\ res'.token.userId = res'.id /\ res'.token.email = res'.req.email
       /\ \A u \in UserIds :
            /\ u \in 1..Len(users')
            /\ users'[u].email = users[u].email
            /\ users'[u].password # users[u].password =>
                  /\ Serves({"changePassword"})
                  /\ res'.status = 200
                  /\ res'.user.userId = u
       /\ Serves({"login"}) =>
            \A u \in UserIds :
                (/\ users[u].email = res'.req.email
                 /\ BcryptCompare(res'.req.password, users[u].password)) =>
                    /\ res'.status = 200
                    /\ IssuedAndFresh(res'.token, clock')
                    /\ res'.token.userId = u
                    /\ res'.token.email = users[u].email
      ]_vars

\* C2 witness: the second of two accounts logs in 23 hours after the start,
\* hence after its registration and other requests, and gets its token.
C2_Witness ==
    /\ res.op = "login" /\ res.status = 200
    /\ res.id = 2 /\ Len(users) = 2
    /\ clock = TokenTTL - 1
    /\ users[1].firstName # users[2].firstName

\* C3: a token of register or login is issued at the clock's time T, a held
\* token was issued no later than now, and a protected request that carries an
\* issued token passes the middleware at every time before T + 24h and ends
\* 403 at every time from T + 24h on, whatever happened in between.
C3_TokenValidFor24h ==
    [][/\ (Serves({"register", "login"}) /\ res'.token # NoToken) =>
            /\ res'.token.iat = clock
            /\ res'.token.sig = JWT_SECRET
       /\ \A t \in held : t.sig = JWT_SECRET /\ t.iat <= clock
       /\ Serves(ProtectedOps) =>
            LET token == BearerToken(res'.authHeader) IN
            (token.kind = "jwt" /\ token.sig = JWT_SECRET) =>
                /\ clock < token.iat + TokenTTL => res'.ran /\ res'.status # 403
                /\ clock >= token.iat + TokenTTL => ~res'.ran /\ res'.status = 403
      ]_vars

\* C3 witness: a token is accepted in the last hour of its 24, after its
\* owner's password was changed.
C3_Witness ==
    /\ res.op = "getProfile" /\ res.ran
    /\ clock = BearerToken(res.authHeader).iat + TokenTTL - 1
    /\ ~BcryptCompare("secret1", users[res.user.userId].password)
    /\ users[res.user.userId].email = "a@x.com"

\* C4: a registration with an email a user record already has ends 400 with
\* no token, and the collection is as it was: no record added, none changed.
C4_DuplicateEmailConflict ==
    [][(Serves({"register"}) /\ \E u \in UserIds : users[u].email = res'.req.email) =>
        /\ res'.status = 400
        /\ res'.token = NoToken
        /\ users' = users
        /\ orders' = orders
      ]_vars

\* C4 witness: a second registration of an email, with another password,
\* was refused.
C4_Witness ==
    /\ res.op = "register" /\ res.status = 400
    /\ \E u \in UserIds :
          /\ users[u].email = res.req.email
          /\ ~BcryptCompare(res.req.password, users[u].password)

\* The user a changePassword request is made as does not pass the current
\* password check.
WrongCurrentPassword ==
    /\ Serves({"changePassword"})
    /\ res'.ran
    /\ res'.user.userId \in UserIds
    /\ ~BcryptCompare(res'.req.currentPassword, users[res'.user.userId].password)

\* C5 as stated: changePassword with a current password that does not match
\* ends 400 and leaves every user as stored (and the clock: the response to a
\* login is then what it would have been before); a login with a password
\* that matched still succeeds and a login with the new password fails.
C5_AsStated ==
    [][WrongCurrentPassword =>
        LET u == res'.user.userId IN
        /\ res'.status = 400
        /\ users' = users /\ clock' = clock
        /\ \A p \in Passwords : BcryptCompare(p, users[u].password) =>
              LoginResponse(users[u].email, p).status = 200
        /\ LoginResponse(users[u].email, res'.req.newPassword).status = 400
      ]_vars

\* C5 amended: as C5, but the login with the new password fails unless the new
\* password is itself one that matches the stored hash.
C5_WrongCurrentPassword ==
    [][WrongCurrentPassword =>
        LET u == res'.user.userId IN
        /\ res'.status = 400
        /\ users' = users /\ clock' = clock
        /\ \A p \in Passwords : BcryptCompare(p, users[u].password) =>
              LoginResponse(users[u].email, p).status = 200
        /\ ~BcryptCompare(res'.req.newPassword, users[u].password) =>
              LoginResponse(users[u].email, res'.req.newPassword).status = 400
      ]_vars

\* C5 witness: changePassword was refused for a wrong current password.
C5_Witness ==
    /\ res.op = "changePassword" /\ res.status = 400
    /\ ~BcryptCompare(res.req.currentPassword, users[res.user.userId].password)
    /\ ~BcryptCompare(res.req.newPassword, users[res.user.userId].password)

\* C6: a createOrder that ends 201 appends one order, owned by the caller
\* whatever userId the body carries, keeps every order there was, adds one to
\* the caller's order count and changes nothing else of any user.
C6_CreateOrderOwnerAndCount ==
    [][(Serves({"createOrder"}) /\ res'.status = 201) =>
        LET U == res'.user.userId IN
        /\ Len(orders') = Len(orders) + 1
        /\ orders'[Len(orders')].userId = U
        /\ \A i \in OrderIds : orders'[i] = orders[i]
        /\ U \in UserIds
        /\ users' = [users EXCEPT ![U].orders = users[U].orders + 1]
      ]_vars

\* C6 witness: a second order was created by the first account with the
\* second account's _id as the body's userId.
C6_Witness ==
    /\ res.op = "createOrder" /\ res.status = 201
    /\ res.user.userId = 1 /\ res.req.userId = 2
    /\ Len(orders) = 2
    /\ orders[2].userId = 1

CancelSteps == {"updateOrder", "adminUpdateOrder"}

\* C7: on both update routes, an update to "Cancelled" that carries a reason
\* stores the reason and comment sent with the server's time as cancelledAt,
\* in place of any record the order had; one that carries no reason, on an
\* order without a record, sets the status and leaves the order without one.
C7_CancellationRecord ==
    [][(/\ Serves(CancelSteps)
        /\ res'.status = 200
        /\ res'.req.body.status = "Cancelled") =>
        LET id == res'.req.id
            sent == res'.req.body.cancellationReason
        IN
        /\ orders'[id].status = "Cancelled"
        /\ sent # NoCancellation =>
              orders'[id].cancellationReason =
                  [kind |-> "record", reason |-> sent.reason,
                   comment |-> sent.comment, cancelledAt |-> clock]
        /\ (sent = NoCancellation /\ orders[id].cancellationReason = NoCancellation) =>
              orders'[id].cancellationReason = NoCancellation
      ]_vars

\* C7 witness: 23 hours after the start the order was cancelled through the
\* admin route, with a reason sent, by an account that does not own it.
C7_Witness ==
    /\ res.op = "adminUpdateOrder" /\ res.status = 200
    /\ res.req.body.status = "Cancelled"
    /\ res.req.body.cancellationReason # NoCancellation
    /\ orders[res.req.id].userId # res.user.userId
    /\ orders[res.req.id].cancellationReason.cancelledAt = TokenTTL - 1

\* C8: PUT /api/orders/:id for an order another user owns ends 404 and
\* leaves every order as it was.
C8_OtherUsersOrderNotFound ==
    [][(/\ Serves({"updateOrder"})
        /\ res'.ran
        /\ res'.req.id \in OrderIds
        /\ orders[res'.req.id].userId # res'.user.userId) =>
        /\ res'.status = 404
        /\ orders' = orders
      ]_vars

\* C8 witness: the owner-scoped update of another user's order, asking for
\* its cancellation with a reason, ended 404.
C8_Witness ==
    /\ res.op = "updateOrder" /\ res.status = 404
    /\ res.req.id \in OrderIds
    /\ orders[res.req.id].userId # res.user.userId
    /\ res.req.body.status = "Cancelled"
    /\ res.req.body.cancellationReason # NoCancellation
    /\ orders[res.req.id].status = "Pending"

\* C9: listOrders ends 200 with each stored order of the caller once and no
\* other, none before an order with a greater date string, and changes nothing.
C9_ListOrdersOwnSortedDesc ==
    [][(Serves({"listOrders"}) /\ res'.ran) =>
        LET out == res'.out
            U == res'.user.userId
        IN
        /\ res'.status = 200
        /\ {out[k] : k \in DOMAIN out} = {i \in OrderIds : orders[i].userId = U}
        /\ Len(out) = Cardinality({i \in OrderIds : orders[i].userId = U})
        /\ \A k, l \in DOMAIN out :
              k < l => ~StrLess(orders[out[k]].date, orders[out[l]].date)
        /\ UNCHANGED <<users, orders, clock, held>>
      ]_vars

\* C9 witness: the caller's two orders came back, "9" before "10", while the
\* other was stored first.
C9_Witness ==
    /\ res.op = "listOrders" /\ res.ran
    /\ res.out = <<2, 1>>
    /\ orders[1].date = <<1, 0>> /\ orders[2].date = <<9>>

\* C10 as stated: an order has a cancellation record only if its status is
\* "Cancelled", and the record's cancelledAt is a time of the server's clock,
\* none a client sent.  (That an update to "Cancelled" with a reason leaves a
\* record is C7.)
C10_AsStated ==
    \A i \in OrderIds :
        orders[i].cancellationReason # NoCancellation =>
            /\ orders[i].status = "Cancelled"
            /\ orders[i].cancellationReason.cancelledAt \in 0..clock
            /\ \A r \in ClientReasons :
                  orders[i].cancellationReason.cancelledAt # r.cancelledAt

\* The register calls in flight or answered for the email.
RegisterCalls(email) ==
    {c \in CallIds : calls[c].op = "register" /\ calls[c].email = email}

\* C11: in every state, whatever the interleaving of concurrent register
\* requests for one email, no two user documents carry the same email, at most
\* one of the requests for an email is answered 201, and a token comes with
\* the 201 only.
C11_OneAccountPerEmail ==
    /\ \A u \in UserIds, v \in UserIds : users[u].email = users[v].email => u = v
    /\ \A email \in Emails :
          Cardinality({c \in RegisterCalls(email) : calls[c].status = 201}) <= 1
    /\ \A c \in CallIds :
          calls[c].op = "register" =>
             (calls[c].status = 201 <=> JwtVerify(calls[c].token, JWT_SECRET, clock))

\* Two requests for one email both found no account; the first save was
\* answered 201 and the second hit the index and was answered 500.
C11_Witness ==
    \E c \in CallIds, d \in CallIds :
       /\ c # d
       /\ calls[c].op = "register" /\ calls[d].op = "register"
       /\ calls[c].email = calls[d].email
       /\ calls[c].status = 201
       /\ calls[d].status = 500

\* What the client sees of a response: all of it but the echo of the request.
Observable(response) == [f \in DOMAIN response \ {"req"} |-> response[f]]

\* The one response of a failed login.
LoginFailure ==
    [op |-> "login", status |-> 400, error |-> "Invalid email or password",
     token |-> NoToken, id |-> 0]

C13_AsStated ==
    [][ /\ Serves({"getProfile", "updateProfile"})
        /\ res'.ran
        /\ FindUserById(res'.user.userId) = 0
        => /\ res'.status = 404
           /\ UNCHANGED <<users, orders>> ]_vars

\* C14: a user's order count is 0 when the account is registered, and a step
\* changes it only by serving a createOrder of that same user, which adds one;
\* register, login, updateProfile whatever its body carries (orders and
\* password included), changePassword, the order updates and the admin routes
\* leave every count as it was, and updateProfile leaves every password hash
\* as it was.
C14_OrderCountFrame ==
    [][ /\ \A u \in DOMAIN users' \ UserIds : users'[u].orders = 0
        /\ \A u \in UserIds :
              users'[u].orders # users[u].orders
              => /\ Serves({"createOrder"})
                 /\ res'.ran
                 /\ res'.user.userId = u
                 /\ users'[u].orders = users[u].orders + 1
        /\ Serves({"updateProfile"})
           => \A u \in UserIds : users'[u].password = users[u].password ]_vars

\* updateProfile was served for a user with one order, its body carrying
\* another order count and another password hash; the profile field was
\* written, the count and the hash were not.
C14_Witness ==
    /\ res.op = "updateProfile"
    /\ res.ran
    /\ res.status = 200
    /\ res.user.userId \in UserIds
    /\ users[res.user.userId].firstName = res.req.firstName
    /\ users[res.user.userId].orders = 1
    /\ res.req.orders # 1
    /\ users[res.user.userId].password # res.req.password

\* The stored orders the user owns.
Owned(u) == {o \in OrderIds : orders[o].userId = u}

\* The user's createOrder calls that saved their order and are at the given
\* positions.
CreateCalls(u, pcs) ==
    {c \in CallIds : /\ calls[c].op = "createOrder"
                     /\ calls[c].userId = u
                     /\ calls[c].pc \in pcs}

\* C15: createOrder writes the order and then the count, with no rollback.  In
\* every state, whatever the interleaving of concurrent createOrder,
\* changePassword and updateProfile requests and wherever a write fails or the
\* process stops, a user's order count is at most the number of stored orders
\* the user owns; the two are equal when no createOrder of the user is between
\* its two writes and none failed or was lost between them (the count is the
\* owned orders less exactly those calls, so no increment is lost to a
\* concurrent request); and a createOrder whose count update failed was
\* answered 500 with its order still stored.
C15_CountFollowsOrders ==
    /\ \A u \in UserIds : users[u].orders <= Cardinality(Owned(u))
    /\ \A u \in UserIds :
          CreateCalls(u, {"inc", "failed", "lost"}) = {}
          => users[u].orders = Cardinality(Owned(u))
    /\ \A u \in UserIds :
          users[u].orders =
             Cardinality(Owned(u)) - Cardinality(CreateCalls(u, {"inc", "failed", "lost"}))
    /\ \A u \in UserIds : \A c \in CreateCalls(u, {"failed"}) :
          /\ calls[c].status = 500
          /\ calls[c].order \in Owned(u)

\* Two createOrder requests of one user ran while a changePassword of the same
\* user was between its read and its save: one order was counted, the other's
\* count update failed and was answered 500, and both orders are stored.
C15_Witness ==
    \E u \in UserIds, c \in CallIds, d \in CallIds, e \in CallIds :
       /\ c \in CreateCalls(u, {"failed"})
       /\ d \in CreateCalls(u, {"done"})
       /\ calls[d].status = 201
       /\ calls[e].op = "changePassword"
       /\ calls[e].userId = u
       /\ calls[e].status = 200
       /\ e < d
       /\ users[u].password = calls[e].doc.password
       /\ calls[e].doc.orders = 0
       /\ users[u].orders = 1
       /\ Cardinality(Owned(u)) = 2

====
